---- MODULE Spec2Model ----
(***************************************************************************)
(* HTTPXMANAGER.make_request (src/httpx_manager.py): one shared circuit    *)
(* breaker, the tenacity retry decorator around make_request, and          *)
(* _execute_request, run by several asyncio tasks that interleave at the   *)
(* two await points (the transport call and the backoff sleep).            *)
(*                                                                         *)
(* The breaker is aiocircuitbreaker.CircuitBreaker as make_request uses    *)
(* it: decorate(f)(...) runs CircuitBreaker.call, which raises             *)
(* CircuitBreakerError when the `opened` property is true, otherwise       *)
(* awaits f, counts a failure for an exception in expected_exception and   *)
(* a success for a normal return.  Its `state` property reports half_open  *)
(* for a stored "open" state whose recovery timeout has run out.           *)
(*                                                                         *)
(* Logger (src/logger.py): the registry of named loggers with their own    *)
(* and shared handlers, under setup_logger, close_logger and               *)
(* close_all_loggers.                                                      *)
(***************************************************************************)
EXTENDS Integers, Sequences, FiniteSets, TLC

\* ---------------------------------------------------------------- bounds
NumCalls == 2
MaxTime == 3
MaxAttemptIndex == 6

Calls == 1..NumCalls

\* configuration values HTTPXMANAGER_CONFIG may supply
FailureThresholds == {2, 5}
RecoveryTimeouts == {2}
RetryAttempts == {1, 3}
Multipliers == {1, 2}
MinWaits == {1, 2}
MaxWaits == {5, 10}

\* HTTP status codes the transport may answer with while calls interleave
StatusCodes == {200, 404, 503}

\* HTTP status codes the retry predicates are applied to
AllStatusCodes == (200..299) \cup (400..599)
Methods == {"GET", "PATCH"}

\* the url argument of each task's calls: the tasks call two destinations
Dest(c) == IF c = 1 THEN "A" ELSE "B"
Destinations == {Dest(c) : c \in Calls}

VARIABLES
    circuit_failure_threshold,  \* self.circuit_failure_threshold
    circuit_recovery_timeout,   \* self.circuit_recovery_timeout
    retry_attempts,             \* self.retry_attempts
    retry_multiplier,           \* self.retry_multiplier
    retry_min_wait,             \* self.retry_min_wait
    retry_max_wait,             \* self.retry_max_wait
    cb,                         \* self.circuit_breaker: _state, _failure_count, _opened
    now,                        \* the clock, in seconds
    pc,                         \* per task: "idle", "inflight", "sleeping", "done"
    method,                     \* per task: the method argument of the call
    attempt_number,             \* per task: tenacity's retry_state.attempt_number
    attempts,                   \* per task: invocations of _execute_request in this call
    outcomes,                   \* per task: raw outcome of each completed attempt
    trial,                      \* per task: the latest attempt was admitted half-open
    wake,                       \* per task: end of the backoff sleep
    result,                     \* per task: what make_request returned ("NONE", "RAISED", ...)
    raised,                     \* per task: the exception make_request raised
    probe,                      \* a raw outcome and what the retry predicates make of it
    _logger_instances,          \* Logger._logger_instances: name -> logger (level, handlers)
    _complete_log_handler,      \* Logger._complete_log_handler: "None" or "handler"
    _severity_handlers,         \* Logger._severity_handlers: the level names it holds
    closed                      \* the handlers in use on which close() has been called

vars == <<circuit_failure_threshold, circuit_recovery_timeout, retry_attempts,
          retry_multiplier, retry_min_wait, retry_max_wait, cb, now, pc, method, attempt_number, attempts, outcomes, trial,
          wake, result, raised, probe,
          _logger_instances, _complete_log_handler, _severity_handlers, closed>>

logging == <<_logger_instances, _complete_log_handler, _severity_handlers, closed>>

config == <<circuit_failure_threshold, circuit_recovery_timeout, retry_attempts,
            retry_multiplier, retry_min_wait, retry_max_wait>>

\* ------------------------------------------------------------ exceptions
NoExc == [type |-> "None", status |-> 0]

Exc(t, s) == [type |-> t, status |-> s]

\* the direct base class of each exception class (httpx, aiocircuitbreaker)
Base(t) ==
    CASE t = "ReadTimeout" -> "TimeoutException"
      [] t = "TimeoutException" -> "TransportError"
      [] t = "ConnectError" -> "NetworkError"
      [] t = "NetworkError" -> "TransportError"
      [] t = "RemoteProtocolError" -> "ProtocolError"
      [] t = "ProtocolError" -> "TransportError"
      [] t = "TransportError" -> "RequestError"
      [] t = "RequestError" -> "HTTPError"
      [] t = "HTTPStatusError" -> "HTTPError"
      [] t = "HTTPError" -> "Exception"
      [] t = "CircuitBreakerError" -> "Exception"
      [] t = "ValueError" -> "Exception"
      [] t = "TypeError" -> "Exception"
      [] t = "CancelledError" -> "BaseException"
      [] t = "Exception" -> "BaseException"
      [] OTHER -> "Exception"

RECURSIVE Mro(_)
Mro(t) == IF t = "BaseException" THEN {t} ELSE {t} \cup Mro(Base(t))

\* isinstance(e, classes)
IsInstance(e, classes) == e # NoExc /\ (Mro(e.type) \cap classes) # {}

\* ------------------------------------------------------- retry predicates
_should_retry_off(exception) ==
    IF IsInstance(exception, {"TimeoutException", "NetworkError", "CircuitBreakerError"})
    THEN TRUE
    ELSE IF IsInstance(exception, {"HTTPStatusError"})
         THEN exception.status > 500 \/ exception.status = 429
         ELSE FALSE

_should_retry(exception) ==
    IF IsInstance(exception, {"TimeoutException", "NetworkError", "CircuitBreakerError"})
    THEN TRUE
    ELSE IF IsInstance(exception, {"HTTPStatusError"})
         THEN exception.status >= 500 \/ exception.status = 429
         ELSE FALSE

\* the lambda handed to the retry decorator
retry_lambda(e) ==
    \/ IsInstance(e, {"TimeoutException", "NetworkError", "CircuitBreakerError"})
    \/ (IsInstance(e, {"HTTPStatusError"}) /\ (e.status >= 500 \/ e.status = 429))

\* ------------------------------------------------------- circuit breaker
\* expected_exception handed to CircuitBreaker(...)
expected_exception == {"TimeoutException", "RequestError", "HTTPStatusError"}

\* CircuitBreaker.open_remaining: seconds left of the recovery window
open_remaining(b, t) == (b.opened + circuit_recovery_timeout) - t

state_eager(b, t) ==
    IF b.state = "open" /\ open_remaining(b, t) <= 1 THEN "half_open" ELSE b.state

state_strict(b, t) ==
    IF b.state = "open" /\ open_remaining(b, t) < 0 THEN "half_open" ELSE b.state

\* CircuitBreaker.state: a stored "open" reads half_open once the window is over
state(b, t) ==
    IF b.state = "open" /\ open_remaining(b, t) <= 0 THEN "half_open" ELSE b.state

\* CircuitBreaker.opened: the admission test of CircuitBreaker.call
opened(b, t) == state(b, t) = "open"

\* self.circuit_breaker: the breaker make_request decorates with, whatever the
\* url of the call
breaker_for(d) == cb

call_succeeded_keep(b) == [b EXCEPT !.state = "closed"]

\* CircuitBreaker.__call_succeeded
call_succeeded(b) == [b EXCEPT !.state = "closed", !.failure_count = 0]

call_failed_late(b, t) ==
    LET n == b.failure_count + 1
    IN  IF n > circuit_failure_threshold
        THEN [state |-> "open", failure_count |-> n, opened |-> t]
        ELSE [b EXCEPT !.failure_count = n]

call_failed_stale(b, t) ==
    LET n == b.failure_count + 1
    IN  IF n >= circuit_failure_threshold
        THEN [state |-> "open", failure_count |-> n,
              opened |-> IF b.state = "open" THEN b.opened ELSE t]
        ELSE [b EXCEPT !.failure_count = n]

call_failed_lost(b, t) ==
    IF b.state = "open" THEN b
    ELSE LET n == b.failure_count + 1
         IN  IF n >= circuit_failure_threshold
             THEN [state |-> "open", failure_count |-> n, opened |-> t]
             ELSE [b EXCEPT !.failure_count = n]

\* CircuitBreaker.__call_failed
call_failed(b, t) ==
    LET n == b.failure_count + 1
    IN  IF n >= circuit_failure_threshold
        THEN [state |-> "open", failure_count |-> n, opened |-> t]
        ELSE [b EXCEPT !.failure_count = n]

\* ------------------------------------------------------ _execute_request
Ret(code) == [tag |-> "return", code |-> code, exc |-> NoExc]
Raise(e) == [tag |-> "raise", code |-> "NONE", exc |-> e]

\* what the transport hands back for one attempt
RawOutcomes ==
    [kind : {"response"}, status : StatusCodes]
      \cup [kind : {"ReadTimeout", "RemoteProtocolError", "ValueError"}, status : {0}]

\* the raw outcomes the retry predicates are applied to
AllRawOutcomes ==
    [kind : {"response"}, status : AllStatusCodes]
      \cup [kind : {"ReadTimeout", "ConnectError", "RemoteProtocolError", "ValueError"},
            status : {0}]

\* the task awaiting the transport is cancelled: the await raises CancelledError
Cancelled == [kind |-> "CancelledError", status |-> 0]

\* resp.raise_for_status(): does the response raise HTTPStatusError
raise_for_status(status) == ~(200 <= status /\ status <= 299)

\* the exception the body of the try block ends with, NoExc when it returns
BodyException(o) ==
    IF o.kind = "response"
    THEN IF raise_for_status(o.status) THEN Exc("HTTPStatusError", o.status) ELSE NoExc
    ELSE Exc(o.kind, 0)

\* _execute_request once the transport has answered: the except clauses in order
_execute_request(o) ==
    LET e == BodyException(o)
    IN  IF e = NoExc THEN Ret("RESPONSE")
        ELSE IF IsInstance(e, {"TimeoutException"}) THEN Raise(e)
        ELSE IF IsInstance(e, {"HTTPStatusError"}) THEN Raise(e)
        ELSE IF IsInstance(e, {"RequestError"}) THEN Raise(e)
        ELSE IF IsInstance(e, {"Exception"}) THEN Ret("UNEXPECTED_ERROR")
        ELSE Raise(e)

\* the method dispatch of _execute_request
supported(m) == m \in {"GET", "POST", "PUT", "DELETE"}

\* CircuitBreaker.call after the wrapped function has finished with r
record(r, b, t) ==
    IF r.tag = "raise"
    THEN IF IsInstance(r.exc, expected_exception) THEN call_failed(b, t) ELSE b
    ELSE call_succeeded(b)

\* ----------------------------------------------------------- make_request
except_any(r) ==
    IF r.tag = "raise" THEN Ret("CIRCUIT_BREAKER_OPEN") ELSE r

\* the except clauses of make_request around the decorated call
make_request_except(r) ==
    IF r.tag = "raise" /\ IsInstance(r.exc, {"CircuitBreakerError"})
    THEN Ret("CIRCUIT_BREAKER_OPEN")
    ELSE r

\* ------------------------------------------------------- retry decorator
\* stop_after_attempt(3)
stop_after_attempt(n) == n >= 3

RECURSIVE Pow2(_)
Pow2(k) == IF k <= 0 THEN 1 ELSE 2 * Pow2(k - 1)

Min(a, b) == IF a <= b THEN a ELSE b
Max(a, b) == IF a >= b THEN a ELSE b

wait_exponential_uncapped(n) == Max(Max(0, 1), 1 * Pow2(n - 1))

\* wait_exponential(multiplier=1, min=1, max=10), exp_base 2
wait_exponential(n) == Max(Max(0, 1), Min(1 * Pow2(n - 1), 10))

retry_if_exception_always(e) == "retry"

retry_if_exception_lambda(e) == IF retry_lambda(e) THEN "retry" ELSE "stop"

\* retry_if_exception_type(<lambda>): the predicate is isinstance(e, <lambda>),
\* and isinstance with a function as its second argument raises TypeError
retry_if_exception_type(e) == "TypeError"

iter_forever(r, n) ==
    IF r.tag = "return" THEN [do |-> "return", r |-> r] ELSE [do |-> "sleep", r |-> r]

\* the retry loop's decision after one run of make_request that ended with r
iter(r, n) ==
    IF r.tag = "return" THEN [do |-> "return", r |-> r]
    ELSE LET d == retry_if_exception_type(r.exc)
         IN  IF d = "TypeError" THEN [do |-> "raise", r |-> Raise(Exc("TypeError", 0))]
             ELSE IF d = "retry" /\ ~stop_after_attempt(n) THEN [do |-> "sleep", r |-> r]
             ELSE [do |-> "raise", r |-> r]

\* ------------------------------------------------------------------ state
TypeOK ==
    /\ circuit_failure_threshold \in FailureThresholds
    /\ circuit_recovery_timeout \in RecoveryTimeouts
    /\ retry_attempts \in RetryAttempts
    /\ retry_multiplier \in Multipliers
    /\ retry_min_wait \in MinWaits
    /\ retry_max_wait \in MaxWaits
    /\ cb.state \in {"closed", "open"}
    /\ cb.failure_count \in Nat
    /\ cb.opened \in 0..MaxTime
    /\ now \in 0..MaxTime
    /\ \A c \in Calls :
         /\ pc[c] \in {"idle", "inflight", "sleeping", "done"}
         /\ method[c] \in Methods
         /\ attempt_number[c] \in Nat
         /\ attempts[c] \in Nat
         /\ trial[c] \in BOOLEAN

\* Logger.__init__
Logger_init ==
    /\ _logger_instances = [n \in {} |-> [level |-> "DEBUG", handlers |-> {}]]
    /\ _complete_log_handler = "None"
    /\ _severity_handlers = {}
    /\ closed = {}

\* the breaker and the tasks after HTTPXMANAGER() has been constructed
InitState ==
    /\ Logger_init
    /\ cb = [state |-> "closed", failure_count |-> 0, opened |-> 0]
    /\ now = 0
    /\ pc = [c \in Calls |-> "idle"]
    /\ method = [c \in Calls |-> "GET"]
    /\ attempt_number = [c \in Calls |-> 0]
    /\ attempts = [c \in Calls |-> 0]
    /\ outcomes = [c \in Calls |-> <<>>]
    /\ trial = [c \in Calls |-> FALSE]
    /\ wake = [c \in Calls |-> 0]
    /\ result = [c \in Calls |-> "NONE"]
    /\ raised = [c \in Calls |-> NoExc]

\* the wait settings at the defaults of HTTPXMANAGER_CONFIG.get
DefaultWaits ==
    /\ retry_multiplier = 1
    /\ retry_min_wait = 1
    /\ retry_max_wait = 10

InitProgram ==
    /\ circuit_failure_threshold \in FailureThresholds
    /\ circuit_recovery_timeout \in RecoveryTimeouts
    /\ retry_attempts \in RetryAttempts
    /\ DefaultWaits
    /\ InitState

NoProbe ==
    [raw |-> [kind |-> "none", status |-> 0], verdict |-> "none", lambda |-> FALSE,
     n |-> 0, delay |-> -1]

Init == InitProgram /\ probe = NoProbe

\* the retry loop acts on its decision d for task c, n being the attempt number
Settle(c, d, n) ==
    IF d.do = "sleep"
    THEN /\ pc' = [pc EXCEPT ![c] = "sleeping"]
         /\ attempt_number' = [attempt_number EXCEPT ![c] = n + 1]
         /\ wake' = [wake EXCEPT ![c] = now + wait_exponential(n)]
         /\ UNCHANGED <<result, raised>>
    ELSE /\ pc' = [pc EXCEPT ![c] = "done"]
         /\ attempt_number' = [attempt_number EXCEPT ![c] = n]
         /\ result' = [result EXCEPT ![c] = IF d.do = "return" THEN d.r.code ELSE "RAISED"]
         /\ raised' = [raised EXCEPT ![c] = d.r.exc]
         /\ UNCHANGED wake

\* One run of make_request by the retry loop, up to its first await: the first
\* run of a call, or the next run after the backoff sleep.  The breaker admits
\* or rejects; an admitted run enters _execute_request.
Attempt(c) ==
    /\ \/ pc[c] = "idle"
       \/ pc[c] = "sleeping" /\ wake[c] <= now
    /\ \E m \in Methods :
         LET first == pc[c] = "idle"
             mm == IF first THEN m ELSE method[c]
             n == IF first THEN 1 ELSE attempt_number[c]
         IN  /\ method' = [method EXCEPT ![c] = mm]
             /\ IF opened(cb, now)
                THEN /\ Settle(c, iter(make_request_except(Raise(Exc("CircuitBreakerError", 0))), n), n)
                     /\ UNCHANGED <<cb, attempts, outcomes, trial>>
                ELSE IF ~supported(mm)
                THEN /\ attempts' = [attempts EXCEPT ![c] = @ + 1]
                     /\ cb' = record(Ret("INVALID_METHOD"), cb, now)
                     /\ Settle(c, iter(make_request_except(Ret("INVALID_METHOD")), n), n)
                     /\ trial' = [trial EXCEPT ![c] = state(cb, now) = "half_open"]
                     /\ UNCHANGED outcomes
                ELSE /\ attempts' = [attempts EXCEPT ![c] = @ + 1]
                     /\ pc' = [pc EXCEPT ![c] = "inflight"]
                     /\ attempt_number' = [attempt_number EXCEPT ![c] = n]
                     /\ trial' = [trial EXCEPT ![c] = state(cb, now) = "half_open"]
                     /\ UNCHANGED <<cb, outcomes, wake, result, raised>>
    /\ UNCHANGED <<config, logging, probe, now>>

\* The transport answers the attempt in flight with raw outcome o:
\* _execute_request finishes, the breaker records, make_request's except
\* clauses run and the retry loop decides.
Complete(c) ==
    /\ pc[c] = "inflight"
    /\ \E o \in RawOutcomes :
         LET r == _execute_request(o)
         IN  /\ outcomes' = [outcomes EXCEPT ![c] = Append(@, o)]
             /\ cb' = record(r, cb, now)
             /\ Settle(c, iter(make_request_except(r), attempt_number[c]), attempt_number[c])
    /\ UNCHANGED <<config, logging, probe, now, method, attempts, trial>>

\* The task of a call is cancelled at one of its two await points.  In flight,
\* CancelledError (a BaseException) passes every except clause of
\* _execute_request and make_request, the breaker records nothing, and the
\* retry loop, which catches BaseException, applies its predicate to it.
\* Asleep, the sleep itself raises and the retry loop lets it through.
Cancel(c) ==
    /\ pc[c] \in {"inflight", "sleeping"}
    /\ IF pc[c] = "inflight"
       THEN LET r == _execute_request(Cancelled)
            IN  /\ outcomes' = [outcomes EXCEPT ![c] = Append(@, Cancelled)]
                /\ cb' = record(r, cb, now)
                /\ Settle(c, iter(make_request_except(r), attempt_number[c]),
                          attempt_number[c])
       ELSE /\ pc' = [pc EXCEPT ![c] = "done"]
            /\ result' = [result EXCEPT ![c] = "RAISED"]
            /\ raised' = [raised EXCEPT ![c] = Exc("CancelledError", 0)]
            /\ UNCHANGED <<cb, outcomes, attempt_number, wake>>
    /\ UNCHANGED <<config, logging, probe, now, method, attempts, trial>>

\* The caller has its result; the task is free for the next call.
Return(c) ==
    /\ pc[c] = "done"
    /\ pc' = [pc EXCEPT ![c] = "idle"]
    /\ attempt_number' = [attempt_number EXCEPT ![c] = 0]
    /\ attempts' = [attempts EXCEPT ![c] = 0]
    /\ outcomes' = [outcomes EXCEPT ![c] = <<>>]
    /\ result' = [result EXCEPT ![c] = "NONE"]
    /\ raised' = [raised EXCEPT ![c] = NoExc]
    /\ method' = [method EXCEPT ![c] = "GET"]
    /\ trial' = [trial EXCEPT ![c] = FALSE]
    /\ UNCHANGED <<config, logging, probe, cb, now, wake>>

\* One second passes.
Tick ==
    /\ now < MaxTime
    /\ now' = now + 1
    /\ UNCHANGED <<config, logging, probe, cb, pc, method, attempt_number, attempts, outcomes,
                   trial, wake, result, raised>>

Next ==
    \/ \E c \in Calls : Attempt(c)
    \/ \E c \in Calls : Complete(c)
    \/ \E c \in Calls : Cancel(c)
    \/ \E c \in Calls : Return(c)
    \/ Tick

Spec == Init /\ [][Next]_vars

\* ---------------------------------------- the retry predicates on their own
\* The retry predicates applied to one raw outcome: what _execute_request makes
\* of it, and what _should_retry and the decorator's lambda say of the exception.
Classify ==
    /\ probe.verdict = "none"
    /\ LET r == _execute_request(probe.raw)
       IN  probe' = [probe EXCEPT
                        !.verdict = IF r.tag = "return" THEN r.code
                                    ELSE IF _should_retry(r.exc) THEN "retry" ELSE "no_retry",
                        !.lambda = r.tag = "raise" /\ retry_lambda(r.exc)]
    /\ UNCHANGED <<config, logging, cb, now, pc, method, attempt_number, attempts, outcomes,
                   trial, wake, result, raised>>

InitClassify ==
    /\ InitProgram
    /\ probe \in [raw : AllRawOutcomes, verdict : {"none"}, lambda : {FALSE},
                  n : {0}, delay : {-1}]

NextClassify == Classify

SpecClassify == InitClassify /\ [][NextClassify]_vars

\* --------------------------------------------------- the program, scheduled
\* The event loop runs every task that is ready: a transport call that has
\* been awaited is answered (or times out), the clock moves on, and a task
\* whose backoff sleep is over runs again.
Fairness ==
    /\ WF_vars(Tick)
    /\ \A c \in Calls : WF_vars(Complete(c))
    /\ \A c \in Calls : WF_vars(pc[c] = "sleeping" /\ Attempt(c))

\* A manager at any point of its life with no call running: the breaker closed
\* below the threshold, or opened at time 0 by the failure that reached it.
InitLive ==
    /\ circuit_failure_threshold \in FailureThresholds
    /\ circuit_recovery_timeout \in RecoveryTimeouts
    /\ retry_attempts = 3
    /\ DefaultWaits
    /\ now = 0
    /\ \/ \E k \in 0..(circuit_failure_threshold - 1) :
             cb = [state |-> "closed", failure_count |-> k, opened |-> 0]
       \/ cb = [state |-> "open", failure_count |-> circuit_failure_threshold,
                opened |-> 0]
    /\ pc = [c \in Calls |-> "idle"]
    /\ method = [c \in Calls |-> "GET"]
    /\ attempt_number = [c \in Calls |-> 0]
    /\ attempts = [c \in Calls |-> 0]
    /\ outcomes = [c \in Calls |-> <<>>]
    /\ trial = [c \in Calls |-> FALSE]
    /\ wake = [c \in Calls |-> 0]
    /\ result = [c \in Calls |-> "NONE"]
    /\ raised = [c \in Calls |-> NoExc]
    /\ probe = NoProbe
    /\ Logger_init

\* each task makes one call
NextLive ==
    \/ \E c \in Calls : Attempt(c)
    \/ \E c \in Calls : Complete(c)
    \/ \E c \in Calls : Cancel(c)
    \/ Tick

SpecLive == InitLive /\ [][NextLive]_vars /\ Fairness

\* ------------------------------------- a manager built from invalid settings
\* HTTPXMANAGER_CONFIG carries RETRY_ATTEMPTS = 0; __init__ stores what it reads.
InitInvalidConfig ==
    /\ circuit_failure_threshold \in FailureThresholds
    /\ circuit_recovery_timeout \in RecoveryTimeouts
    /\ retry_attempts = 0
    /\ DefaultWaits
    /\ InitState
    /\ probe = NoProbe

SpecInvalidConfig == InitInvalidConfig /\ [][Next]_vars

\* ------------------------------------------------ the wait strategy on its own
\* The decorator's wait strategy applied to attempt number probe.n.
Backoff ==
    /\ probe.n > 0
    /\ probe.delay = -1
    /\ probe' = [probe EXCEPT !.delay = wait_exponential(probe.n)]
    /\ UNCHANGED <<config, logging, cb, now, pc, method, attempt_number, attempts, outcomes,
                   trial, wake, result, raised>>

InitBackoff ==
    /\ circuit_failure_threshold \in FailureThresholds
    /\ circuit_recovery_timeout \in RecoveryTimeouts
    /\ retry_attempts \in RetryAttempts
    /\ retry_multiplier \in Multipliers
    /\ retry_min_wait \in MinWaits
    /\ retry_max_wait \in MaxWaits
    /\ InitState
    /\ probe \in [raw : {NoProbe.raw}, verdict : {"none"}, lambda : {FALSE},
                  n : 1..MaxAttemptIndex, delay : {-1}]

NextBackoff == Backoff

SpecBackoff == InitBackoff /\ [][NextBackoff]_vars

\* ------------------------------------------------------------------ Logger
\* logger_name arguments, and logger_name = None
LoggerNames == {"client", "database"}
NoName == "None"

\* the LoggerConfig fields setup_logger reads; LOG_FILE: whether one is given
LoggerConfigs ==
    [LOG_LEVEL : {"DEBUG", "INFO"}, LOG_FILE : BOOLEAN, ENABLE_SEVERITY_FILES : BOOLEAN]

\* severity_levels of _setup_severity_handlers
SeverityLevels == {"WARNING", "ERROR", "CRITICAL"}

\* a handler object: a logger's own console or file handler, or a shared one
Handler(owner, kind) == [owner |-> owner, kind |-> kind]
CompleteHandler == Handler("shared", "complete")
SeverityHandler(l) == Handler("shared", l)

\* the fields of the Logger object
LoggerState ==
    [instances |-> _logger_instances, complete |-> _complete_log_handler,
     severity |-> _severity_handlers, closed |-> closed]

\* the handler objects the Logger and its registered loggers still refer to
Live(S) ==
    UNION {S.instances[n].handlers : n \in DOMAIN S.instances}
      \cup (IF S.complete # "None" THEN {CompleteHandler} ELSE {})
      \cup {SeverityHandler(l) : l \in S.severity}

\* handler objects nothing refers to any more are forgotten
Collect(S) == [S EXCEPT !.closed = @ \cap Live(S)]

\* Logger._setup_severity_handlers; writable: the log directory can be written
_setup_severity_handlers(S, config_, writable) ==
    IF ~config_.ENABLE_SEVERITY_FILES \/ S.severity # {} THEN S
    ELSE IF writable
         THEN [S EXCEPT !.severity = SeverityLevels,
                        !.closed = @ \ {SeverityHandler(l) : l \in SeverityLevels}]
         ELSE S

\* Logger.setup_logger with a config given
setup_logger(S, logger_name, config_, writable) ==
    IF logger_name \in DOMAIN S.instances THEN S
    ELSE LET S1 == _setup_severity_handlers(S, config_, writable)
             own == {Handler(logger_name, "console")}
                      \cup (IF config_.LOG_FILE /\ writable
                            THEN {Handler(logger_name, "file")} ELSE {})
             create == S1.complete = "None" /\ writable
             complete == IF create THEN "handler" ELSE S1.complete
             shared == (IF complete # "None" THEN {CompleteHandler} ELSE {})
                         \cup {SeverityHandler(l) : l \in S1.severity}
             logger == [level |-> config_.LOG_LEVEL, handlers |-> own \cup shared]
         IN  [instances |-> [n \in DOMAIN S.instances \cup {logger_name} |->
                               IF n = logger_name THEN logger ELSE S.instances[n]],
              complete |-> complete,
              severity |-> S1.severity,
              closed |-> S1.closed \ (own \cup (IF create THEN {CompleteHandler} ELSE {}))]

\* Logger.close_logger
close_logger(S, logger_name) ==
    IF logger_name # NoName
    THEN IF logger_name \in DOMAIN S.instances
         THEN Collect([S EXCEPT
                  !.closed = @ \cup S.instances[logger_name].handlers,
                  !.instances = [n \in DOMAIN S.instances \ {logger_name} |->
                                   S.instances[n]]])
         ELSE S
    ELSE Collect([instances |-> [n \in {} |-> S.instances[n]],
                  complete |-> "None",
                  severity |-> {},
                  closed |-> S.closed \cup Live(S)])

\* Logger.list_loggers
list_loggers(S) == DOMAIN S.instances

\* the loop of close_all_loggers over the names still to close
RECURSIVE CloseEach(_, _)
CloseEach(S, names) ==
    IF names = {} THEN S
    ELSE LET instance == CHOOSE n \in names : TRUE
         IN  CloseEach(close_logger(S, instance), names \ {instance})

\* Logger.close_all_loggers
close_all_loggers(S) == CloseEach(S, list_loggers(S))

manager == <<config, cb, now, pc, method, attempt_number, attempts, outcomes,
             trial, wake, result, raised, probe>>

SetupLogger ==
    \E logger_name \in LoggerNames, config_ \in LoggerConfigs, writable \in BOOLEAN :
        LET S == setup_logger(LoggerState, logger_name, config_, writable)
        IN  /\ _logger_instances' = S.instances
            /\ _complete_log_handler' = S.complete
            /\ _severity_handlers' = S.severity
            /\ closed' = S.closed
            /\ UNCHANGED manager

CloseLogger ==
    \E logger_name \in LoggerNames \cup {NoName} :
        LET S == close_logger(LoggerState, logger_name)
        IN  /\ _logger_instances' = S.instances
            /\ _complete_log_handler' = S.complete
            /\ _severity_handlers' = S.severity
            /\ closed' = S.closed
            /\ UNCHANGED manager

CloseAllLoggers ==
    LET S == close_all_loggers(LoggerState)
    IN  /\ _logger_instances' = S.instances
        /\ _complete_log_handler' = S.complete
        /\ _severity_handlers' = S.severity
        /\ closed' = S.closed
        /\ UNCHANGED manager

NextLogger == SetupLogger \/ CloseLogger \/ CloseAllLoggers

SpecLogger == Init /\ [][NextLogger]_vars

\* ================================================================ claims
\* the raw outcome of the latest completed attempt of task c
Last(c) == outcomes[c][Len(outcomes[c])]

\* task c's attempt in flight is answered in this step
Completes(c) == pc[c] = "inflight" /\ pc'[c] # "inflight"

\* the retry loop starts a run of make_request for task c in this step
Admits(c) == pc[c] \in {"idle", "sleeping"} /\ pc'[c] # pc[c]

\* the classes of raw outcome the specification names
IsSuccess(o) == o.kind = "response" /\ o.status \in 200..299
IsRetryable(o) ==
    \/ o.kind \in {"ReadTimeout", "ConnectError"}
    \/ o.kind = "response" /\ (o.status >= 500 \/ o.status = 429)
IsTerminal(o) ==
    \/ o.kind = "RemoteProtocolError"
    \/ o.kind = "response" /\ o.status \in 400..499 /\ o.status # 429
IsFailure(o) == IsRetryable(o) \/ IsTerminal(o)

\* C1: a call gets the CIRCUIT_BREAKER_OPEN result only in a step that is a
\* refused admission (the breaker reads open), and that step invokes no
\* _execute_request, completes no attempt and records nothing in the breaker.
C1_RejectedWithoutTransport ==
    [][\A c \in Calls :
         (result[c] # "CIRCUIT_BREAKER_OPEN" /\ result'[c] = "CIRCUIT_BREAKER_OPEN")
           => /\ Admits(c)
              /\ opened(cb, now)
              /\ attempts'[c] = attempts[c]
              /\ outcomes'[c] = outcomes[c]
              /\ cb' = cb]_vars

C1_Witness ==
    \E c \in Calls :
        pc[c] = "done" /\ result[c] = "CIRCUIT_BREAKER_OPEN" /\ attempts[c] = 0

\* C2: while the breaker is closed its failure count is below the threshold; a
\* failing attempt recorded on a closed breaker adds one to the count and opens
\* the breaker exactly when the count reaches the threshold; a successful
\* attempt sets the count to zero.
C2_OpensOnNthFailure ==
    /\ [](cb.state = "closed" => cb.failure_count < circuit_failure_threshold)
    /\ [][\A c \in Calls :
            Completes(c) =>
              /\ (IsFailure(Last(c)') /\ cb.state = "closed")
                   => /\ cb'.failure_count = cb.failure_count + 1
                      /\ (cb'.state = "open"
                            <=> cb.failure_count + 1 = circuit_failure_threshold)
                      /\ (cb'.state = "open" => state(cb', now') = "open")
              /\ IsSuccess(Last(c)') => cb'.failure_count = 0]_vars

C2_Witness ==
    /\ circuit_failure_threshold = 5
    /\ cb.state = "open"
    /\ cb.failure_count = 5
    /\ \E c \in Calls : pc[c] = "done" /\ outcomes[c] # <<>> /\ IsFailure(Last(c))

\* C3: an admission made while the breaker is open and less than the recovery
\* timeout has run since it opened is rejected; an admission made once the
\* timeout has run finds the breaker half-open and enters _execute_request.
C3_OpenRejectsUntilTimeout ==
    [][\A c \in Calls :
         (Admits(c) /\ cb.state = "open") =>
           /\ now - cb.opened < circuit_recovery_timeout
                => /\ result'[c] = "CIRCUIT_BREAKER_OPEN"
                   /\ pc'[c] = "done"
                   /\ attempts'[c] = attempts[c]
           /\ now - cb.opened >= circuit_recovery_timeout
                => /\ state(cb, now) = "half_open"
                   /\ attempts'[c] = attempts[c] + 1
                   /\ result'[c] # "CIRCUIT_BREAKER_OPEN"]_vars

C3_Witness ==
    \E c \in Calls :
        /\ pc[c] = "inflight" /\ trial[c]
        /\ cb.state = "open" /\ now - cb.opened >= circuit_recovery_timeout

\* C4: when the attempt of a call admitted half-open completes while the
\* breaker is half-open, a success closes the breaker with failure count 0 and
\* a failure leaves it open with the recovery window restarted at that time.
C4_HalfOpenTrial ==
    [][\A c \in Calls :
         (Completes(c) /\ trial[c] /\ state(cb, now) = "half_open") =>
           /\ IsSuccess(Last(c)') => (cb'.state = "closed" /\ cb'.failure_count = 0)
           /\ IsFailure(Last(c)')
                => /\ state(cb', now') = "open"
                   /\ cb'.opened = now
                   /\ open_remaining(cb', now') = circuit_recovery_timeout]_vars

C4_Witness ==
    \E c \in Calls :
        /\ pc[c] = "done" /\ trial[c] /\ outcomes[c] # <<>> /\ IsFailure(Last(c))
        /\ cb.state = "open" /\ cb.opened = now /\ now > 0
        /\ cb.failure_count > circuit_failure_threshold

\* C5: the breaker's mode changes only along closed->open, open->half_open,
\* half_open->closed and half_open->open.
C5_DefinedEdges ==
    [][state(cb, now) # state(cb', now')
         => <<state(cb, now), state(cb', now')>> \in
              {<<"closed", "open">>, <<"open", "half_open">>,
               <<"half_open", "closed">>, <<"half_open", "open">>}]_vars

\* C6: while the breaker is half-open at most one attempt admitted half-open
\* is in flight.
C6_TrialBudget ==
    state(cb, now) = "half_open"
      => Cardinality({c \in Calls : pc[c] = "inflight" /\ trial[c]}) <= 1

\* C7: the invocations of _execute_request made for one call never exceed the
\* configured retry_attempts.
C7_AttemptsBounded == \A c \in Calls : attempts[c] <= retry_attempts

C7_Witness ==
    \E c \in Calls :
        /\ pc[c] = "done" /\ attempts[c] = retry_attempts
        /\ outcomes[c] # <<>> /\ IsRetryable(Last(c))

\* C8: with retry_attempts = 3 and failure threshold 5, a call whose attempts
\* all timed out and that ends with the breaker closed has made 3 attempts and
\* ends by raising the timeout.
C8_ThreeTimeouts ==
    \A c \in Calls :
        (/\ retry_attempts = 3 /\ circuit_failure_threshold = 5
         /\ pc[c] = "done" /\ cb.state = "closed"
         /\ outcomes[c] # <<>>
         /\ \A i \in 1..Len(outcomes[c]) : outcomes[c][i].kind = "ReadTimeout"
         /\ \A d \in Calls \ {c} : pc[d] = "idle")
          => /\ attempts[c] = 3
             /\ Len(outcomes[c]) = 3
             /\ result[c] = "RAISED"
             /\ IsInstance(raised[c], {"TimeoutException"})

\* C9: a backoff sleep is entered only after an attempt with a retryable
\* outcome and only with the attempt number below retry_attempts; a terminal
\* outcome is the last attempt of its call and ends the call, and a refused
\* admission ends the call.
C9_RetryOnlyRetryable ==
    /\ [][\A c \in Calls :
            /\ (pc[c] # "sleeping" /\ pc'[c] = "sleeping")
                 => /\ Completes(c)
                    /\ IsRetryable(Last(c)')
                    /\ attempt_number[c] < retry_attempts
            /\ (Admits(c) /\ opened(cb, now)) => pc'[c] = "done"]_vars
    /\ [](\A c \in Calls : \A i \in 1..Len(outcomes[c]) :
            IsTerminal(outcomes[c][i])
              => i = Len(outcomes[c]) /\ attempts[c] = i /\ pc[c] = "done")

C9_Witness ==
    \E c \in Calls :
        /\ pc[c] = "done" /\ attempts[c] = 1 /\ Len(outcomes[c]) = 1
        /\ IsTerminal(Last(c)) /\ result[c] = "RAISED"

\* C10: _should_retry and the decorator's lambda say retry for a timeout, a
\* network error, a status >= 500 and status 429, and say no retry for any
\* other 4xx status and for a protocol error; a 2xx response raises nothing
\* and is returned.
C10_Classification ==
    probe.verdict # "none" =>
      LET o == probe.raw
      IN  /\ o.kind \in {"ReadTimeout", "ConnectError"}
               => probe.verdict = "retry" /\ probe.lambda
          /\ (o.kind = "response" /\ o.status \in {500, 502, 503, 429})
               => probe.verdict = "retry" /\ probe.lambda
          /\ (o.kind = "response" /\ o.status >= 500)
               => probe.verdict = "retry" /\ probe.lambda
          /\ (o.kind = "response" /\ o.status \in 400..499 /\ o.status # 429)
               => probe.verdict = "no_retry" /\ ~probe.lambda
          /\ o.kind = "RemoteProtocolError"
               => probe.verdict = "no_retry" /\ ~probe.lambda
          /\ (o.kind = "response" /\ o.status \in 200..299)
               => probe.verdict = "RESPONSE"

C10_Witness ==
    /\ probe.raw = [kind |-> "response", status |-> 429]
    /\ probe.verdict = "retry"

\* the breaker is open and its recovery timeout has not run out
StillOpen == cb.state = "open" /\ now - cb.opened < circuit_recovery_timeout

C12_AlwaysReturnsResult ==
    \A c \in Calls : pc[c] = "done" => result[c] # "RAISED"

RECURSIVE Power(_, _)
Power(b, k) == IF k <= 0 THEN 1 ELSE b * Power(b, k - 1)

\* C14: for every configured retry_min_wait, retry_max_wait and
\* retry_multiplier the delay after attempt n is
\* min(retry_max_wait, retry_min_wait * retry_multiplier^(n-1)).
C14_DelayFollowsConfig ==
    probe.delay # -1
      => probe.delay = Min(retry_max_wait,
                           retry_min_wait * Power(retry_multiplier, probe.n - 1))

\* C15: recording the outcome of an attempt against one destination leaves
\* the breaker state (mode, failure count, transition timestamp) that governs
\* every other destination unchanged.
C15_PerDestinationBreaker ==
    [][\A c \in Calls :
         Completes(c)
           => \A d \in Destinations \ {Dest(c)} : breaker_for(d)' = breaker_for(d)]_vars

\* C16: when the failure of a call's last attempt trips the breaker, the call
\* ends with that attempt's own failure.
C16_TripSurfacesFailure ==
    [][\A c \in Calls :
         (/\ Completes(c) /\ pc'[c] = "done"
          /\ cb.state = "closed" /\ cb'.state = "open")
           => /\ result'[c] = "RAISED"
              /\ raised'[c] = BodyException(Last(c)')]_vars

\* C17: a call cancelled while suspended makes no further attempt and ends
\* tagged as cancelled (a cancelled result, or CancelledError itself).
C17_CancelledResult ==
    \A c \in Calls :
        (pc[c] = "done" /\ outcomes[c] # <<>> /\ Last(c) = Cancelled)
          => \/ result[c] = "CANCELLED"
             \/ result[c] = "RAISED" /\ raised[c] = Exc("CancelledError", 0)

\* C18: a manager built from an invalid setting (here retry_attempts < 1)
\* never accepts a call.
C18_InvalidConfigRejected ==
    retry_attempts < 1 => \A c \in Calls : pc[c] = "idle" /\ attempts[c] = 0

\* C19: under every interleaving of the calls sharing the breaker, each
\* completed failing attempt raises the failure count by exactly one, the
\* count rises in no other step, and the breaker is open after the step
\* exactly when the count including that increment has reached the threshold.
C19_AtomicRecord ==
    [][/\ \A c \in Calls :
            (Completes(c) /\ Last(c)' \in RawOutcomes /\ IsFailure(Last(c)'))
              => /\ cb'.failure_count = cb.failure_count + 1
                 /\ cb'.failure_count >= circuit_failure_threshold
                      => cb'.state = "open" /\ cb'.opened = now
                 /\ cb'.failure_count < circuit_failure_threshold
                      => cb'.state = cb.state /\ cb'.opened = cb.opened
       /\ cb'.failure_count > cb.failure_count
            => \E c \in Calls :
                 Completes(c) /\ Last(c)' \in RawOutcomes /\ IsFailure(Last(c)')]_vars

\* two attempts admitted while the breaker was closed have both failed, the
\* second of them recorded after the first had opened the breaker
C19_Witness ==
    /\ cb.state = "open"
    /\ cb.failure_count > circuit_failure_threshold
    /\ \A c \in {1, 2} :
         /\ pc[c] = "done" /\ ~trial[c]
         /\ outcomes[c] # <<>> /\ IsFailure(Last(c))

\* C20: for every completed attempt the breaker records a failure exactly when
\* the attempt is a retryable or terminal failure, and a success exactly when
\* it is a success (stated for a breaker holding failures, where recording a
\* success, recording a failure and recording nothing all differ).
C20_RecordFollowsClassification ==
    [][\A c \in Calls :
         (Completes(c) /\ Last(c)' \in RawOutcomes /\ cb.failure_count > 0)
           => /\ IsFailure(Last(c)') <=> cb' = call_failed(cb, now)
              /\ IsSuccess(Last(c)') <=> cb' = call_succeeded(cb)]_vars

\* C21: a call that has started (an attempt in flight, or asleep between two
\* attempts) eventually reaches done, whatever the transport answers and
\* whatever the breaker state, given that attempts and waits complete.
C21_EventuallyDone ==
    \A c \in Calls : (pc[c] \in {"inflight", "sleeping"}) ~> (pc[c] = "done")

C21_Witness ==
    \E c \in Calls :
        /\ pc[c] = "done" /\ attempts[c] = 1
        /\ outcomes[c] # <<>> /\ IsRetryable(Last(c))
        /\ cb.state = "closed" /\ cb.failure_count = 1

\* C22: in every reachable state the breaker is closed only with a failure
\* count below the threshold, open or half-open only with a count of at least
\* the threshold, and the count is never negative.
C22_ModeAgreesWithCount ==
    /\ cb.failure_count >= 0
    /\ state(cb, now) = "closed" => cb.failure_count < circuit_failure_threshold
    /\ state(cb, now) \in {"open", "half_open"}
         => cb.failure_count >= circuit_failure_threshold

C22_Witness ==
    /\ state(cb, now) = "half_open"
    /\ cb.failure_count = circuit_failure_threshold
    /\ \E c \in Calls : pc[c] = "inflight" /\ trial[c]

\* C23: a call answered with a local error result (INVALID_METHOD or
\* UNEXPECTED_ERROR) ends there, not retried, and leaves the breaker unchanged.
C23_LocalErrorLeavesBreaker ==
    [][\A c \in Calls :
         (/\ result[c] = "NONE"
          /\ result'[c] \in {"INVALID_METHOD", "UNEXPECTED_ERROR"})
           => pc'[c] = "done" /\ cb' = cb]_vars

\* C24: from every state of the Logger, close_all_loggers and close_logger()
\* with no name leave the same state: no logger registered, the complete-log
\* handler released and the severity handlers cleared.
C24_CloseAllIsCloseLogger ==
    LET all == close_all_loggers(LoggerState)
    IN  /\ all = close_logger(LoggerState, NoName)
        /\ list_loggers(all) = {}
        /\ all.complete = "None"
        /\ all.severity = {}

\* C25: setup_logger for a registered name changes nothing, whatever the
\* configuration; and a step that closes one named logger removes only that
\* name and leaves every other registered logger with open handlers.
C25_SetupIdempotentCloseLocal ==
    /\ [](\A n \in list_loggers(LoggerState), cf \in LoggerConfigs, w \in BOOLEAN :
            setup_logger(LoggerState, n, cf, w) = LoggerState)
    /\ [][\A n \in LoggerNames :
            (/\ n \in DOMAIN _logger_instances
             /\ DOMAIN _logger_instances' = DOMAIN _logger_instances \ {n}
             /\ DOMAIN _logger_instances' # {})
              => \A m \in DOMAIN _logger_instances' :
                   /\ _logger_instances'[m] = _logger_instances[m]
                   /\ _logger_instances'[m].handlers \cap closed' = {}]_vars

====
